---- MODULE Spec2Model ----
(***************************************************************************)
(* The Gantt viewport controller, anychart.core.gantt.Controller           *)
(* (src/src/core/gantt/Controller.js), as a state machine.                 *)
(*                                                                         *)
(* The controller flattens a collapsible tree into the sequence of visible *)
(* rows, keeps a cumulative height cache over it, and resolves the triple  *)
(* (startIndex, endIndex, verticalOffset) that fills availableHeight.      *)
(* One action stands for one public call (or one notification of the tree) *)
(* and carries out everything the call does.                               *)
(*                                                                         *)
(* JavaScript numbers are integers here, with two reserved values: NaN and *)
(* Undefined (what reading past the end of an array gives).  Arithmetic    *)
(* and comparisons go through the operators below, which treat both as     *)
(* JavaScript does.  Values stored in the tree (item.get(...)) are tagged  *)
(* records: undefined, a number, NaN, a string.                            *)
(***************************************************************************)
EXTENDS Integers, Sequences, FiniteSets, TLC

VARIABLES
  isResourceChart_,       \* constructor argument
  periodsMap_,            \* id -> period, as the set of the periods held
  data_,                  \* the attached tree, or Null
  meta,                   \* the metadata bags of the attached tree's nodes
  visibleData_,           \* visible nodes, in order
  heightCache_,           \* cumulative heights of the visible rows
  startIndex_,
  endIndex_,
  verticalOffset_,
  availableHeight_,
  positionRecalculated_,
  minDate_,
  maxDate_,
  consistency_,           \* the dirty bits: a subset of {DATA, VISIBILITY, POSITION}
  passes,                 \* the passes the most recent call executed, in order
  branch,                 \* the branch recalculate took in the most recent call, or "none"
  query,                  \* the most recent height-cache query and its result
  dataGrid_,              \* whether a data grid is attached
  timeline_,              \* whether a timeline is attached
  verticalScrollBar_,     \* whether the scroll bar has been made
  scrollBarRatio,         \* the ratios the scroll bar was last given
  gridDraw,               \* what the most recent call passed to the data grid's drawInternal
  timelineDraw,           \* what the most recent call passed to the timeline's drawInternal
  gridPending,            \* recalculate has executed since the data grid was last drawn
  timelinePending         \* recalculate has executed since the timeline was last drawn

vars == <<isResourceChart_, periodsMap_, data_, meta, visibleData_, heightCache_,
          startIndex_, endIndex_, verticalOffset_, availableHeight_,
          positionRecalculated_, minDate_, maxDate_, consistency_, passes, branch, query,
          dataGrid_, timeline_, verticalScrollBar_, scrollBarRatio, gridDraw, timelineDraw,
          gridPending, timelinePending>>

-----------------------------------------------------------------------------
(* Bounds of the model.                                                    *)

\* Nodes of a generated tree (SpecTree).
MaxNodes == 4
\* Largest availableHeight a caller sets.
MaxAvail == 8
\* Largest verticalOffset a caller sets (the smallest is -1).
MaxOffset == 2
\* Largest index a caller passes to startIndex / endIndex (the smallest is -1).
MaxIndex == 4
\* Rows of a height cache drawn for the height-cache queries (SpecCache).
MaxRows == 3
\* Nodes of a resource tree (SpecRes).
MaxResNodes == 3
\* Largest pixel offset a caller scrolls to (the smallest is -1).
MaxPx == 6
\* Nodes of a tree with dates (SpecDates).
MaxDateNodes == 2

-----------------------------------------------------------------------------
(* JavaScript values.                                                      *)

NaN == -1000
Undefined == -2000

\* ToNumber: undefined becomes NaN.
ToNum(x) == IF x = Undefined THEN NaN ELSE x
isNaN(x) == ToNum(x) = NaN
Add(a, b) == IF isNaN(a) \/ isNaN(b) THEN NaN ELSE a + b
Sub(a, b) == IF isNaN(a) \/ isNaN(b) THEN NaN ELSE a - b
\* Every comparison with NaN is false.
Lt(a, b) == ~isNaN(a) /\ ~isNaN(b) /\ a < b
Gt(a, b) == ~isNaN(a) /\ ~isNaN(b) /\ a > b
Ge(a, b) == ~isNaN(a) /\ ~isNaN(b) /\ a >= b
\* a == b and a != b on numbers
Eq(a, b) == ~isNaN(a) /\ ~isNaN(b) /\ a = b
Ne(a, b) == ~Eq(a, b)
MathMin(a, b) == IF isNaN(a) \/ isNaN(b) THEN NaN ELSE IF a < b THEN a ELSE b
MathMax(a, b) == IF isNaN(a) \/ isNaN(b) THEN NaN ELSE IF a > b THEN a ELSE b
\* a || d : d when a is undefined, NaN or 0
OrElse(a, d) == IF a = Undefined \/ a = NaN \/ a = 0 THEN d ELSE a
\* arr[i] of a JavaScript array held as a sequence (index 0 is the first)
At(arr, i) == IF i \in 0..(Len(arr) - 1) THEN arr[i + 1] ELSE Undefined

\* Values of a tree item's fields.
FUndef == [type |-> "undefined"]
FNaN == [type |-> "NaN"]
FNum(n) == [type |-> "number", num |-> n]
FStr(s) == [type |-> "string", str |-> s]

-----------------------------------------------------------------------------
(* The tree (anychart.data.Tree), the controller's collaborator.           *)
(* Nodes are 1..n; parent[i] = 0 for a root; siblings are ordered by       *)
(* number.                                                                 *)

Null == [null |-> TRUE]

Nodes(t) == 1..Len(t.parent)

RECURSIVE Ascending(_)
\* The members of a finite set of integers, in ascending order.
Ascending(S) ==
  IF S = {} THEN <<>>
  ELSE LET m == CHOOSE x \in S : \A y \in S : x <= y
       IN <<m>> \o Ascending(S \ {m})

Children(t, p) == Ascending({i \in Nodes(t) : t.parent[i] = p})

numChildren(t, n) == Len(Children(t, n))

RECURSIVE Depth(_, _)
Depth(t, n) == IF t.parent[n] = 0 THEN 0 ELSE 1 + Depth(t, t.parent[n])

RECURSIVE Walk(_, _, _)
\* The traverser: pre-order over the nodes of `todo` and what is below them,
\* not descending into the children of a node of `closed`.
Walk(t, todo, closed) ==
  IF todo = <<>> THEN <<>>
  ELSE LET n == Head(todo)
           kids == IF n \in closed THEN <<>> ELSE Children(t, n)
       IN <<n>> \o Walk(t, kids \o Tail(todo), closed)

\* tree.getTraverser() with no condition: the full passage.
FullPassage(t) == Walk(t, Children(t, 0), {})

\* The metadata of a tree nobody has annotated yet.
FreshMeta(t) ==
  [i \in Nodes(t) |-> [collapsed |-> "undefined", depth |-> Undefined, index |-> Undefined]]

-----------------------------------------------------------------------------
(* anychart.core.Base: the consistency states.                             *)

SUPPORTED_CONSISTENCY_STATES == {"DATA", "VISIBILITY", "POSITION"}
invalidate(c, state) == c \cup (state \cap SUPPORTED_CONSISTENCY_STATES)
markConsistent(c, state) == c \ state
isConsistent(c) == c = {}
hasInvalidationState(c, state) == state \in c

-----------------------------------------------------------------------------
(* Row heights.                                                            *)

\* anychart.core.ui.DataGrid.DEFAULT_ROW_HEIGHT and ROW_SPACE, scaled down so
\* that every pixel value of a viewport can be enumerated.
DEFAULT_ROW_HEIGHT == 1
ROW_SPACE == 1

\* anychart.utils.toNumber: NaN for null and undefined, else +value.
toNumber(f) ==
  IF f.type = "number" THEN f.num ELSE NaN

\* Mutant of getItemHeight: the row height is the field's number, with no
\* default for a field that has none.
getItemHeightNoDefault(t, item) ==
  IF isNaN(toNumber(t.rowHeight[item])) THEN 0 ELSE toNumber(t.rowHeight[item])

getItemHeight(t, item) == OrElse(toNumber(t.rowHeight[item]), DEFAULT_ROW_HEIGHT)

-----------------------------------------------------------------------------
(* linearizeData_ and checkDate_.                                          *)

\* checkDate_ on the range d = [min, max]: a number that is not NaN extends it.
checkDate_(d, date) ==
  IF date.type = "number"
  THEN LET first == IF isNaN(d.min) THEN [min |-> date.num, max |-> date.num] ELSE d
           lo == IF date.num < first.min THEN date.num ELSE first.min
           hi == IF date.num > first.max THEN date.num ELSE first.max
       IN [min |-> lo, max |-> hi]
  ELSE d

RECURSIVE IndexPeriods(_, _, _)
\* The loop over one item's raw periods array, from position i on:
\* acc = [map, range].
IndexPeriods(periods, i, acc) ==
  IF i > Len(periods) THEN acc
  ELSE LET period == periods[i]
           taken == \E q \in acc.map : q.id = period.id
           map1 == IF ~taken THEN acc.map \cup {period} ELSE acc.map
           r1 == checkDate_(acc.range, period.start)
           r2 == checkDate_(r1, period.end)
       IN IndexPeriods(periods, i + 1, [map |-> map1, range |-> r2])

\* What linearizeData_ does for one item of the full passage:
\* acc = [map, range, meta, linearIndex].
LinearizeItem(t, resource, item, acc) ==
  LET f == t.dates[item]
      d1 == checkDate_(acc.range, f.actualStart)
      d2 == checkDate_(d1, f.actualEnd)
      d3 == checkDate_(d2, f.baselineStart)
      d4 == checkDate_(d3, f.baselineEnd)
      m1 == [acc.meta EXCEPT ![item].depth = Depth(t, item),
                             ![item].index = acc.linearIndex]
      per == IF resource
             THEN IF t.periods[item].type = "array"
                  THEN IndexPeriods(t.periods[item].arr, 1, [map |-> {}, range |-> d4])
                  ELSE [map |-> {}, range |-> d4]
             ELSE [map |-> acc.map, range |-> d4]
      m2 == IF numChildren(t, item) # 0 /\ t.collapsed[item] # "undefined"
            THEN [m1 EXCEPT ![item].collapsed = t.collapsed[item]]
            ELSE m1
  IN [map |-> per.map, range |-> per.range, meta |-> m2,
      linearIndex |-> acc.linearIndex + 1]

RECURSIVE LinearizeFrom(_, _, _, _)
LinearizeFrom(t, resource, items, acc) ==
  IF items = <<>> THEN acc
  ELSE LinearizeFrom(t, resource, Tail(items),
                     LinearizeItem(t, resource, Head(items), acc))

\* Mutant of linearizeData_: the date range is not reset.
linearizeDataKeepsRange_(t, resource, map, m) ==
  LinearizeFrom(t, resource, FullPassage(t),
                [map |-> map, range |-> [min |-> minDate_, max |-> maxDate_],
                 meta |-> m, linearIndex |-> 0])

\* linearizeData_: the new [map, range, meta] of the controller and the tree.
linearizeData_(t, resource, map, m) ==
  LinearizeFrom(t, resource, FullPassage(t),
                [map |-> map, range |-> [min |-> NaN, max |-> NaN],
                 meta |-> m, linearIndex |-> 0])

-----------------------------------------------------------------------------
(* getVisibleData_.                                                        *)

\* Mutant of traverseChildrenCondition_: the condition is inverted.
traverseChildrenIfCollapsed_(mt) == mt.collapsed = "true"

\* Whether the traverser goes through the item's children: the item is not
\* collapsed.  mt is the item's metadata bag.
traverseChildrenCondition_(mt) == mt.collapsed # "true"

RECURSIVE CumulativeHeights(_, _, _)
\* The height cache of the rows `items`, the rows before them being `height` high.
CumulativeHeights(t, items, height) ==
  IF items = <<>> THEN <<>>
  ELSE LET h == height + (getItemHeight(t, Head(items)) + ROW_SPACE)
       IN <<h>> \o CumulativeHeights(t, Tail(items), h)

\* getVisibleData_: the new [visibleData, heightCache].
getVisibleData_(t, m) ==
  LET closed == {n \in Nodes(t) : ~traverseChildrenCondition_(m[n])}
      rows == Walk(t, Children(t, 0), closed)
  IN [visibleData |-> rows, heightCache |-> CumulativeHeights(t, rows, 0)]

-----------------------------------------------------------------------------
(* Height cache queries.                                                   *)

\* Mutant of getHeightByIndexes_: the indexes are not swapped.
getHeightByIndexesNoSwap_(cache, startIndex, opt_endIndex) ==
  IF Len(cache) = 0 THEN 0
  ELSE LET cacheEnd == Len(cache) - 1
           s == MathMin(startIndex, cacheEnd)
           e == IF opt_endIndex # Undefined THEN MathMin(opt_endIndex, cacheEnd)
                ELSE cacheEnd
           startHeight == OrElse(At(cache, Sub(s, 1)), 0)
       IN Sub(At(cache, e), startHeight)

\* getHeightByIndexes_(startIndex, opt_endIndex); opt_endIndex = Undefined when
\* the caller leaves it out.
getHeightByIndexes_(cache, startIndex, opt_endIndex) ==
  IF Len(cache) = 0 THEN 0
  ELSE LET cacheEnd == Len(cache) - 1
           s0 == MathMin(startIndex, cacheEnd)
           e0 == IF opt_endIndex # Undefined THEN MathMin(opt_endIndex, cacheEnd)
                 ELSE cacheEnd
           swap == Gt(s0, e0)
           s == IF swap THEN e0 ELSE s0
           e == IF swap THEN s0 ELSE e0
           startHeight == OrElse(At(cache, Sub(s, 1)), 0)
       IN Sub(At(cache, e), startHeight)

\* goog.array.defaultCompare
defaultCompare(a, b) == IF Gt(a, b) THEN 1 ELSE IF Lt(a, b) THEN -1 ELSE 0

RECURSIVE BinarySearchLoop(_, _, _, _, _)
\* goog.array.binarySearch's loop: left inclusive, right exclusive.
BinarySearchLoop(arr, target, left, right, found) ==
  IF left < right
  THEN LET middle == (left + right) \div 2
           compareResult == defaultCompare(target, At(arr, middle))
       IN IF compareResult > 0
          THEN BinarySearchLoop(arr, target, middle + 1, right, found)
          ELSE BinarySearchLoop(arr, target, left, middle, compareResult = 0)
  ELSE IF found THEN left ELSE -left - 1

binarySearch(arr, target) == BinarySearchLoop(arr, target, 0, Len(arr), FALSE)

\* Mutant of getIndexByHeight_: a value that is not in the cache gives the index
\* before its insertion point.
getIndexByHeightBefore_(cache, height) ==
  LET index == binarySearch(cache, height)
  IN IF index >= 0 THEN index ELSE -index - 2

\* getIndexByHeight_: the index found, or the insertion point.
getIndexByHeight_(cache, height) ==
  LET index == binarySearch(cache, height)
  IN IF index >= 0 THEN index ELSE -index - 1

-----------------------------------------------------------------------------
(* recalculate: the position resolver.                                     *)

\* Mutant of resolveOverflow: going from the end of the list keeps the vertical
\* offset that was set.
resolveOverflowKeepsOffset(cache, startIndex, endIndex, verticalOffset, availableHeight) ==
  LET s1 == IF isNaN(startIndex) /\ isNaN(endIndex) THEN 0 ELSE startIndex
  IN IF ~isNaN(s1)
     THEN LET below == Sub(getHeightByIndexes_(cache, s1, Undefined), verticalOffset)
          IN IF Lt(below, availableHeight)
             THEN [startIndex |-> getIndexByHeight_(cache,
                                    Sub(At(cache, Len(cache) - 1), availableHeight)),
                   endIndex |-> Len(cache) - 1,
                   verticalOffset |-> verticalOffset,
                   branch |-> "startToEnd"]
             ELSE LET height == IF Eq(s1, 0) THEN 0 ELSE At(cache, Sub(s1, 1))
                  IN [startIndex |-> s1,
                      endIndex |-> getIndexByHeight_(cache,
                         Add(Add(height, availableHeight), verticalOffset)),
                      verticalOffset |-> verticalOffset, branch |-> "start"]
     ELSE LET above == getHeightByIndexes_(cache, 0, endIndex)
          IN IF Lt(above, availableHeight)
             THEN [startIndex |-> 0, verticalOffset |-> 0,
                   endIndex |-> getIndexByHeight_(cache, availableHeight),
                   branch |-> "endToStart"]
             ELSE LET s2 == getIndexByHeight_(cache,
                               Sub(At(cache, endIndex), availableHeight))
                  IN [startIndex |-> s2, endIndex |-> endIndex,
                      verticalOffset |->
                        Sub(getHeightByIndexes_(cache, s2, endIndex), availableHeight),
                      branch |-> "end"]

\* recalculate when the rows do not fit: the anchor decides.
resolveOverflow(cache, startIndex, endIndex, verticalOffset, availableHeight) ==
  LET s1 == IF isNaN(startIndex) /\ isNaN(endIndex) THEN 0 ELSE startIndex
  IN IF ~isNaN(s1)
     THEN \* Start index is set.
          LET below == Sub(getHeightByIndexes_(cache, s1, Undefined), verticalOffset)
          IN IF Lt(below, availableHeight)
             THEN \* Going from end of list.
                  LET s2 == getIndexByHeight_(cache,
                               Sub(At(cache, Len(cache) - 1), availableHeight))
                      e2 == Len(cache) - 1
                  IN [startIndex |-> s2, endIndex |-> e2,
                      verticalOffset |->
                        Sub(getHeightByIndexes_(cache, s2, e2), availableHeight),
                      branch |-> "startToEnd"]
             ELSE LET height == IF Eq(s1, 0) THEN 0 ELSE At(cache, Sub(s1, 1))
                  IN [startIndex |-> s1,
                      endIndex |-> getIndexByHeight_(cache,
                         Add(Add(height, availableHeight), verticalOffset)),
                      verticalOffset |-> verticalOffset, branch |-> "start"]
     ELSE \* End index is set, start index is NaN here.
          LET above == getHeightByIndexes_(cache, 0, endIndex)
          IN IF Lt(above, availableHeight)
             THEN \* Going from start of list.
                  [startIndex |-> 0, verticalOffset |-> 0,
                   endIndex |-> getIndexByHeight_(cache, availableHeight),
                   branch |-> "endToStart"]
             ELSE LET s2 == getIndexByHeight_(cache,
                               Sub(At(cache, endIndex), availableHeight))
                  IN [startIndex |-> s2, endIndex |-> endIndex,
                      verticalOffset |->
                        Sub(getHeightByIndexes_(cache, s2, endIndex), availableHeight),
                      branch |-> "end"]

\* Mutant of recalculate: rows that fit keep the vertical offset they had.
recalculateKeepsOffset(visibleData, cache, startIndex, endIndex, verticalOffset, availableHeight) ==
  IF Len(visibleData) # 0
  THEN LET totalHeight == getHeightByIndexes_(cache, 0, Len(cache) - 1)
       IN IF Ge(availableHeight, totalHeight)
          THEN [startIndex |-> 0, verticalOffset |-> verticalOffset,
                endIndex |-> Len(visibleData) - 1, branch |-> "fits"]
          ELSE resolveOverflow(cache, startIndex, endIndex, verticalOffset, availableHeight)
  ELSE [startIndex |-> 0, endIndex |-> 0, verticalOffset |-> 0, branch |-> "empty"]

\* The triple recalculate leaves, and the branch it took, from the visible rows,
\* the cache, the triple as it was and the available height.
recalculate(visibleData, cache, startIndex, endIndex, verticalOffset, availableHeight) ==
  IF Len(visibleData) # 0
  THEN LET totalHeight == getHeightByIndexes_(cache, 0, Len(cache) - 1)
       IN IF Ge(availableHeight, totalHeight)
          THEN [startIndex |-> 0, verticalOffset |-> 0, endIndex |-> Len(visibleData) - 1,
                branch |-> "fits"]
          ELSE resolveOverflow(cache, startIndex, endIndex, verticalOffset, availableHeight)
  ELSE [startIndex |-> 0, endIndex |-> 0, verticalOffset |-> 0, branch |-> "empty"]

-----------------------------------------------------------------------------
(* The controller's calls.                                                 *)

NoQuery == [asked |-> FALSE, a |-> 0, b |-> 0, result |-> 0]
NoDraw == [drawn |-> FALSE]
NoRatio == [set |-> FALSE]

\* A call that draws nothing and leaves the collaborators as they are.
NoDrawing ==
  /\ gridDraw' = NoDraw
  /\ timelineDraw' = NoDraw
  /\ UNCHANGED <<dataGrid_, timeline_, verticalScrollBar_, scrollBarRatio,
                 gridPending, timelinePending>>

\* The state the constructor leaves.
Constructed(resource) ==
  /\ isResourceChart_ = resource
  /\ periodsMap_ = {}
  /\ data_ = Null
  /\ meta = <<>>
  /\ visibleData_ = <<>>
  /\ heightCache_ = <<>>
  /\ startIndex_ = NaN
  /\ endIndex_ = NaN
  /\ verticalOffset_ = 0
  /\ availableHeight_ = 0
  /\ positionRecalculated_ = FALSE
  /\ minDate_ = NaN
  /\ maxDate_ = NaN
  /\ consistency_ = {}
  /\ passes = <<>>
  /\ branch = "none"
  /\ query = NoQuery
  /\ dataGrid_ = FALSE
  /\ timeline_ = FALSE
  /\ verticalScrollBar_ = FALSE
  /\ scrollBarRatio = NoRatio
  /\ gridDraw = NoDraw
  /\ timelineDraw = NoDraw
  /\ gridPending = FALSE
  /\ timelinePending = FALSE

\* Mutant of dataInvalidated_: a metadata change is taken for a change of data.
dataInvalidatedAsData_(signals) ==
  IF "META_CHANGED" \in signals \/ "DATA_CHANGED" \in signals THEN {"DATA"} ELSE {}

\* dataInvalidated_: the states a notification of the tree invalidates.
dataInvalidated_(signals) ==
  (IF "META_CHANGED" \in signals THEN {"VISIBILITY"} ELSE {})
    \cup (IF "DATA_CHANGED" \in signals THEN {"DATA"} ELSE {})

\* data(tree): attach a tree (a new tree object, its nodes not yet annotated).
Data(t) ==
  /\ IF data_ # t
     THEN /\ data_' = t
          /\ meta' = FreshMeta(t)
          /\ consistency_' = invalidate(consistency_, {"DATA"})
     ELSE UNCHANGED <<data_, meta, consistency_>>
  /\ passes' = <<>>
  /\ branch' = "none"
  /\ NoDrawing
  /\ UNCHANGED <<isResourceChart_, periodsMap_, visibleData_, heightCache_,
                 startIndex_, endIndex_, verticalOffset_, availableHeight_,
                 positionRecalculated_, minDate_, maxDate_, query>>

\* The tree notifies the controller (its listener is dataInvalidated_).
TreeSignal(signals) ==
  /\ data_ # Null
  /\ consistency_' = invalidate(consistency_, dataInvalidated_(signals))
  /\ passes' = <<>>
  /\ branch' = "none"
  /\ NoDrawing
  /\ UNCHANGED <<isResourceChart_, periodsMap_, data_, meta, visibleData_, heightCache_,
                 startIndex_, endIndex_, verticalOffset_, availableHeight_,
                 positionRecalculated_, minDate_, maxDate_, query>>

\* Somebody sets the collapsed metadata of one item; the tree reports the
\* metadata change.
CollapseItem(n, value) ==
  /\ data_ # Null
  /\ n \in Nodes(data_)
  /\ meta[n].collapsed # value
  /\ meta' = [meta EXCEPT ![n].collapsed = value]
  /\ consistency_' = invalidate(consistency_, dataInvalidated_({"META_CHANGED"}))
  /\ passes' = <<>>
  /\ branch' = "none"
  /\ NoDrawing
  /\ UNCHANGED <<isResourceChart_, periodsMap_, data_, visibleData_, heightCache_,
                 startIndex_, endIndex_, verticalOffset_, availableHeight_,
                 positionRecalculated_, minDate_, maxDate_, query>>

\* The items a traverser gives, as a set.
Visited(items) == {items[i] : i \in 1..Len(items)}

\* Mutant of collapseAll_: the passage is the one of the expanded items, which
\* does not go below a collapsed item.
collapseAllExpanded_(t, m, value) ==
  LET closed == {n \in Nodes(t) : ~traverseChildrenCondition_(m[n])}
      items == Visited(Walk(t, Children(t, 0), closed))
  IN [n \in Nodes(t) |-> IF n \in items THEN [m[n] EXCEPT !.collapsed = value] ELSE m[n]]

\* collapseAll_(value): the metadata after its full passage.
collapseAll_(t, m, value) ==
  LET items == Visited(FullPassage(t))
  IN [n \in Nodes(t) |-> IF n \in items THEN [m[n] EXCEPT !.collapsed = value] ELSE m[n]]

\* What the tree reports when its notifications are resumed after metadata
\* was set: one metadata change.
ResumedSignals == {"META_CHANGED"}

\* collapseAll() / expandAll(): collapseAll_(true) / collapseAll_(false), the
\* tree's notification included.
CollapseAll(value) ==
  /\ data_ # Null
  /\ meta' = collapseAll_(data_, meta, value)
  /\ consistency_' = invalidate(consistency_, dataInvalidated_(ResumedSignals))
  /\ passes' = <<>>
  /\ branch' = "none"
  /\ NoDrawing
  /\ UNCHANGED <<isResourceChart_, periodsMap_, data_, visibleData_, heightCache_,
                 startIndex_, endIndex_, verticalOffset_, availableHeight_,
                 positionRecalculated_, minDate_, maxDate_, query>>

\* verticalOffset(value)
SetVerticalOffset(value) ==
  /\ IF Ne(verticalOffset_, value)
     THEN /\ verticalOffset_' = value
          /\ consistency_' = invalidate(consistency_, {"POSITION"})
     ELSE UNCHANGED <<verticalOffset_, consistency_>>
  /\ passes' = <<>>
  /\ branch' = "none"
  /\ NoDrawing
  /\ UNCHANGED <<isResourceChart_, periodsMap_, data_, meta, visibleData_, heightCache_,
                 startIndex_, endIndex_, availableHeight_,
                 positionRecalculated_, minDate_, maxDate_, query>>

\* Mutant of SetStartIndex: the end index is left as it was.
SetStartIndexKeepsEnd(value) ==
  /\ IF Ne(startIndex_, value) /\ ~isNaN(value)
     THEN /\ startIndex_' = value
          /\ consistency_' = invalidate(consistency_, {"POSITION"})
     ELSE UNCHANGED <<startIndex_, consistency_>>
  /\ passes' = <<>>
  /\ branch' = "none"
  /\ NoDrawing
  /\ UNCHANGED <<isResourceChart_, periodsMap_, data_, meta, visibleData_, heightCache_,
                 endIndex_, verticalOffset_, availableHeight_,
                 positionRecalculated_, minDate_, maxDate_, query>>

\* startIndex(value)
SetStartIndex(value) ==
  /\ IF Ne(startIndex_, value) /\ ~isNaN(value)
     THEN /\ startIndex_' = value
          /\ endIndex_' = NaN
          /\ consistency_' = invalidate(consistency_, {"POSITION"})
     ELSE UNCHANGED <<startIndex_, endIndex_, consistency_>>
  /\ passes' = <<>>
  /\ branch' = "none"
  /\ NoDrawing
  /\ UNCHANGED <<isResourceChart_, periodsMap_, data_, meta, visibleData_, heightCache_,
                 verticalOffset_, availableHeight_,
                 positionRecalculated_, minDate_, maxDate_, query>>

\* endIndex(value)
SetEndIndex(value) ==
  /\ IF Ne(endIndex_, value) /\ ~isNaN(value)
     THEN /\ endIndex_' = value
          /\ startIndex_' = NaN
          /\ consistency_' = invalidate(consistency_, {"POSITION"})
     ELSE UNCHANGED <<startIndex_, endIndex_, consistency_>>
  /\ passes' = <<>>
  /\ branch' = "none"
  /\ NoDrawing
  /\ UNCHANGED <<isResourceChart_, periodsMap_, data_, meta, visibleData_, heightCache_,
                 verticalOffset_, availableHeight_,
                 positionRecalculated_, minDate_, maxDate_, query>>

\* availableHeight(value)
SetAvailableHeight(value) ==
  /\ IF Ne(availableHeight_, value)
     THEN /\ availableHeight_' = value
          /\ consistency_' = invalidate(consistency_, {"POSITION"})
     ELSE UNCHANGED <<availableHeight_, consistency_>>
  /\ passes' = <<>>
  /\ branch' = "none"
  /\ NoDrawing
  /\ UNCHANGED <<isResourceChart_, periodsMap_, data_, meta, visibleData_, heightCache_,
                 startIndex_, endIndex_, verticalOffset_,
                 positionRecalculated_, minDate_, maxDate_, query>>

\* Mutant of Recalculate: the position is resolved without a word of it.
RecalculateKeepsFlag ==
  LET p == recalculate(visibleData_, heightCache_, startIndex_, endIndex_,
                       verticalOffset_, availableHeight_)
  IN /\ startIndex_' = p.startIndex
     /\ endIndex_' = p.endIndex
     /\ verticalOffset_' = p.verticalOffset
     /\ consistency_' = markConsistent(consistency_, {"POSITION"})
     /\ passes' = <<"recalculate">>
     /\ branch' = p.branch
     /\ gridPending' = TRUE
     /\ timelinePending' = TRUE
     /\ gridDraw' = NoDraw
     /\ timelineDraw' = NoDraw
     /\ UNCHANGED <<dataGrid_, timeline_, verticalScrollBar_, scrollBarRatio>>
     /\ UNCHANGED <<isResourceChart_, periodsMap_, data_, meta, visibleData_, heightCache_,
                    availableHeight_, minDate_, maxDate_, query, positionRecalculated_>>

\* recalculate(), called from outside run().
Recalculate ==
  LET p == recalculate(visibleData_, heightCache_, startIndex_, endIndex_,
                       verticalOffset_, availableHeight_)
  IN /\ startIndex_' = p.startIndex
     /\ endIndex_' = p.endIndex
     /\ verticalOffset_' = p.verticalOffset
     /\ positionRecalculated_' = TRUE
     /\ consistency_' = markConsistent(consistency_, {"POSITION"})
     /\ passes' = <<"recalculate">>
     /\ branch' = p.branch
     /\ gridPending' = TRUE
     /\ timelinePending' = TRUE
     /\ gridDraw' = NoDraw
     /\ timelineDraw' = NoDraw
     /\ UNCHANGED <<dataGrid_, timeline_, verticalScrollBar_, scrollBarRatio>>
     /\ UNCHANGED <<isResourceChart_, periodsMap_, data_, meta, visibleData_, heightCache_,
                    availableHeight_, minDate_, maxDate_, query>>

\* Mutant of afterLinearize: VISIBILITY is not invalidated.
afterLinearizeNoCascade(c) == markConsistent(c, {"DATA"})

\* run(), once linearizeData_ is done: DATA is consistent, VISIBILITY is not.
afterLinearize(c) == invalidate(markConsistent(c, {"DATA"}), {"VISIBILITY"})

\* run(), once getVisibleData_ is done: VISIBILITY is consistent, POSITION is not.
afterVisibleData(c) == invalidate(markConsistent(c, {"VISIBILITY"}), {"POSITION"})

\* The settings the setters write: the position and the dirty bits.
Settings ==
  [startIndex |-> startIndex_, endIndex |-> endIndex_,
   verticalOffset |-> verticalOffset_, consistency |-> consistency_]

\* The ratio px / total rounded to 4 decimals (anychart.math.round), in
\* ten-thousandths.
RatioScale == 10000
Ratio(px, total) ==
  IF isNaN(px) \/ isNaN(total) \/ total = 0 THEN NaN
  ELSE ((2 * px * RatioScale) + total) \div (2 * total)

\* run(), the scroll bar's part: the ratios it is given.
scrollBarRatios(cache, startIndex, verticalOffset, availableHeight) ==
  LET itemHeight == getHeightByIndexes_(cache, startIndex, startIndex)
      height == Sub(At(cache, startIndex), itemHeight)
      start == Add(height, verticalOffset)
      end == Add(start, availableHeight)
      totalEnd == At(cache, Len(cache) - 1)
  IN [set |-> TRUE, startRatio |-> Ratio(start, totalEnd), endRatio |-> Ratio(end, totalEnd)]

\* verticalOffset(value), startIndex(value) and endIndex(value) on the settings
\* st, for the calls that chain them before run().
verticalOffset(st, value) ==
  IF value # Undefined /\ Ne(st.verticalOffset, value)
  THEN [st EXCEPT !.verticalOffset = value,
                  !.consistency = invalidate(@, {"POSITION"})]
  ELSE st

startIndex(st, value) ==
  IF value # Undefined /\ Ne(st.startIndex, value) /\ ~isNaN(value)
  THEN [st EXCEPT !.startIndex = value, !.endIndex = NaN,
                  !.consistency = invalidate(@, {"POSITION"})]
  ELSE st

endIndex(st, value) ==
  IF value # Undefined /\ Ne(st.endIndex, value) /\ ~isNaN(value)
  THEN [st EXCEPT !.endIndex = value, !.startIndex = NaN,
                  !.consistency = invalidate(@, {"POSITION"})]
  ELSE st

\* scrollToEnd(opt_index) on the settings st; Undefined when the index is left out.
scrollToEnd(st, opt_index) ==
  endIndex(st, OrElse(opt_index, Len(heightCache_) - 1))

\* scrollTo(pxOffset), up to its run(): the settings it leaves.
scrollTo(st, pxOffset) ==
  LET totalHeight == At(heightCache_, Len(heightCache_) - 1)
  IN IF Gt(pxOffset, Sub(totalHeight, availableHeight_))
     THEN endIndex(st, Len(heightCache_))
     ELSE LET itemIndex == getIndexByHeight_(heightCache_, pxOffset)
              previousHeight == IF itemIndex # 0 THEN At(heightCache_, itemIndex - 1) ELSE 0
              offset == Sub(itemIndex, previousHeight)
          IN startIndex(verticalOffset(st, offset), itemIndex)

\* goog.math.clamp
clamp(value, min, max) == MathMin(MathMax(value, min), max)

\* scrollToRow(rowIndex), up to its run(): the settings it leaves.
scrollToRow(st, rowIndex) ==
  verticalOffset(startIndex(st, clamp(rowIndex, 0, Len(heightCache_) - 1)), 0)

\* run() on the settings st: what it leaves in the controller.
run(st) ==
  LET dirty == ~isConsistent(st.consistency)
      doData == dirty /\ hasInvalidationState(st.consistency, "DATA")
      lin == IF doData
             THEN linearizeData_(data_, isResourceChart_, periodsMap_, meta)
             ELSE [map |-> periodsMap_, range |-> [min |-> minDate_, max |-> maxDate_],
                   meta |-> meta]
      c1 == IF doData THEN afterLinearize(st.consistency) ELSE st.consistency
      doVisible == dirty /\ hasInvalidationState(c1, "VISIBILITY")
      vis == IF doVisible
             THEN getVisibleData_(data_, lin.meta)
             ELSE [visibleData |-> visibleData_, heightCache |-> heightCache_]
      c2 == IF doVisible THEN afterVisibleData(c1) ELSE c1
      p == IF dirty
           THEN recalculate(vis.visibleData, vis.heightCache, st.startIndex, st.endIndex,
                            st.verticalOffset, availableHeight_)
           ELSE [startIndex |-> st.startIndex, endIndex |-> st.endIndex,
                 verticalOffset |-> st.verticalOffset, branch |-> "none"]
      c3 == IF dirty THEN markConsistent(c2, {"POSITION"}) ELSE c2
  IN [map |-> lin.map, range |-> lin.range, meta |-> lin.meta,
      visibleData |-> vis.visibleData, heightCache |-> vis.heightCache,
      startIndex |-> p.startIndex, endIndex |-> p.endIndex,
      verticalOffset |-> p.verticalOffset, consistency |-> c3,
      passes |-> (IF doData THEN <<"linearize">> ELSE <<>>)
                   \o (IF doVisible THEN <<"visible">> ELSE <<>>)
                   \o (IF dirty THEN <<"recalculate">> ELSE <<>>),
      branch |-> p.branch,
      recalculated |-> dirty,
      positionRecalculated |-> (positionRecalculated_ \/ dirty)]

\* run() on the settings st, as a step of the controller.
RunFrom(st) ==
  \E r \in {run(st)} :
  LET drawn == [drawn |-> TRUE, visibleData |-> r.visibleData,
                startIndex |-> r.startIndex, endIndex |-> r.endIndex,
                verticalOffset |-> r.verticalOffset, availableHeight |-> availableHeight_,
                positionRecalculated |-> r.positionRecalculated]
  IN /\ periodsMap_' = r.map
     /\ minDate_' = r.range.min
     /\ maxDate_' = r.range.max
     /\ meta' = r.meta
     /\ visibleData_' = r.visibleData
     /\ heightCache_' = r.heightCache
     /\ startIndex_' = r.startIndex
     /\ endIndex_' = r.endIndex
     /\ verticalOffset_' = r.verticalOffset
     /\ consistency_' = r.consistency
     /\ positionRecalculated_' = FALSE
     /\ passes' = r.passes
     /\ branch' = r.branch
     /\ gridDraw' = IF dataGrid_ THEN drawn ELSE NoDraw
     /\ timelineDraw' = IF timeline_ THEN drawn ELSE NoDraw
     /\ gridPending' = IF dataGrid_ THEN FALSE ELSE (gridPending \/ r.recalculated)
     /\ timelinePending' = IF timeline_ THEN FALSE ELSE (timelinePending \/ r.recalculated)
     /\ scrollBarRatio' = IF verticalScrollBar_
                          THEN scrollBarRatios(r.heightCache, r.startIndex, r.verticalOffset,
                                               availableHeight_)
                          ELSE scrollBarRatio
     /\ UNCHANGED <<isResourceChart_, data_, availableHeight_, query,
                    dataGrid_, timeline_, verticalScrollBar_>>

\* run()
Run == RunFrom(Settings)

\* A call that changes no field of the controller and draws nothing.
Nothing ==
  /\ passes' = <<>>
  /\ branch' = "none"
  /\ NoDrawing
  /\ UNCHANGED <<isResourceChart_, periodsMap_, data_, meta, visibleData_, heightCache_,
                 startIndex_, endIndex_, verticalOffset_, availableHeight_,
                 positionRecalculated_, minDate_, maxDate_, consistency_, query>>

\* Mutant of ScrollTo: run() is called whatever the offset.
ScrollToAlwaysRuns(pxOffset) ==
  LET px == MathMax(pxOffset, 0)
  IN IF px # 0 /\ ~isNaN(px) THEN RunFrom(scrollTo(Settings, px)) ELSE RunFrom(Settings)

\* scrollTo(pxOffset)
ScrollTo(pxOffset) ==
  LET px == MathMax(pxOffset, 0)
  IN IF px # 0 /\ ~isNaN(px) THEN RunFrom(scrollTo(Settings, px)) ELSE Nothing

\* scrollToRow(rowIndex)
ScrollToRow(rowIndex) == RunFrom(scrollToRow(Settings, rowIndex))

\* scrollToEnd(opt_index)
ScrollToEnd(opt_index) ==
  LET st == scrollToEnd(Settings, opt_index)
  IN /\ startIndex_' = st.startIndex
     /\ endIndex_' = st.endIndex
     /\ consistency_' = st.consistency
     /\ passes' = <<>>
     /\ branch' = "none"
     /\ NoDrawing
     /\ UNCHANGED <<isResourceChart_, periodsMap_, data_, meta, visibleData_, heightCache_,
                    verticalOffset_, availableHeight_,
                    positionRecalculated_, minDate_, maxDate_, query>>

\* Math.round of the product ratio * height, the ratio in ten-thousandths.
RoundProduct(ratio, height) ==
  IF isNaN(ratio) \/ isNaN(height) THEN NaN
  ELSE ((2 * ratio * height) + RatioScale) \div (2 * RatioScale)

\* Mutant of scrollChange: the offset is taken from the row's index, as
\* scrollTo takes it.
scrollChangeFromIndex(st, startRatio, endRatio) ==
  LET totalHeight == At(heightCache_, Len(heightCache_) - 1)
  IN IF startRatio = 0
     THEN startIndex(verticalOffset(st, 0), 0)
     ELSE IF endRatio = RatioScale
     THEN endIndex(st, Len(heightCache_))
     ELSE LET startHeight == RoundProduct(startRatio, totalHeight)
              index == getIndexByHeight_(heightCache_, startHeight)
              previousHeight == IF index # 0 THEN At(heightCache_, index - 1) ELSE 0
              offset == Sub(index, previousHeight)
          IN startIndex(verticalOffset(st, offset), index)

\* The scroll bar's SCROLL_CHANGE listener, up to its run(): the settings it
\* leaves.  The ratios are in ten-thousandths.
scrollChange(st, startRatio, endRatio) ==
  LET totalHeight == At(heightCache_, Len(heightCache_) - 1)
  IN IF startRatio = 0
     THEN startIndex(verticalOffset(st, 0), 0)
     ELSE IF endRatio = RatioScale
     THEN endIndex(st, Len(heightCache_))
     ELSE LET startHeight == RoundProduct(startRatio, totalHeight)
              index == getIndexByHeight_(heightCache_, startHeight)
              previousHeight == IF index # 0 THEN At(heightCache_, index - 1) ELSE 0
              offset == Sub(startHeight, previousHeight)
          IN startIndex(verticalOffset(st, offset), index)

\* The scroll bar reports a change of its thumb.
ScrollChange(startRatio, endRatio) ==
  /\ verticalScrollBar_
  /\ RunFrom(scrollChange(Settings, startRatio, endRatio))

\* getScrollBar(): the scroll bar is made on the first call.
GetScrollBar ==
  /\ verticalScrollBar_' = TRUE
  /\ passes' = <<>>
  /\ branch' = "none"
  /\ gridDraw' = NoDraw
  /\ timelineDraw' = NoDraw
  /\ UNCHANGED <<dataGrid_, timeline_, scrollBarRatio, gridPending, timelinePending>>
  /\ UNCHANGED <<isResourceChart_, periodsMap_, data_, meta, visibleData_, heightCache_,
                 startIndex_, endIndex_, verticalOffset_, availableHeight_,
                 positionRecalculated_, minDate_, maxDate_, consistency_, query>>

\* dataGrid(value): a data grid is attached.
DataGrid ==
  /\ IF ~dataGrid_
     THEN /\ dataGrid_' = TRUE
          /\ consistency_' = invalidate(consistency_, {"POSITION"})
     ELSE UNCHANGED <<dataGrid_, consistency_>>
  /\ passes' = <<>>
  /\ branch' = "none"
  /\ gridDraw' = NoDraw
  /\ timelineDraw' = NoDraw
  /\ UNCHANGED <<timeline_, verticalScrollBar_, scrollBarRatio, gridPending, timelinePending>>
  /\ UNCHANGED <<isResourceChart_, periodsMap_, data_, meta, visibleData_, heightCache_,
                 startIndex_, endIndex_, verticalOffset_, availableHeight_,
                 positionRecalculated_, minDate_, maxDate_, query>>

\* timeline(value): a timeline is attached.
Timeline ==
  /\ IF ~timeline_
     THEN /\ timeline_' = TRUE
          /\ consistency_' = invalidate(consistency_, {"POSITION"})
     ELSE UNCHANGED <<timeline_, consistency_>>
  /\ passes' = <<>>
  /\ branch' = "none"
  /\ gridDraw' = NoDraw
  /\ timelineDraw' = NoDraw
  /\ UNCHANGED <<dataGrid_, verticalScrollBar_, scrollBarRatio, gridPending, timelinePending>>
  /\ UNCHANGED <<isResourceChart_, periodsMap_, data_, meta, visibleData_, heightCache_,
                 startIndex_, endIndex_, verticalOffset_, availableHeight_,
                 positionRecalculated_, minDate_, maxDate_, query>>

-----------------------------------------------------------------------------
(* Spec: the controller of a project chart over a few trees, with every    *)
(* viewport setting enumerated.                                            *)

NoDates == [actualStart |-> FUndef, actualEnd |-> FUndef,
            baselineStart |-> FUndef, baselineEnd |-> FUndef]

\* A tree of the given shape, row-height fields and collapsed fields, without
\* dates and periods.
PlainTree(parent, rowHeight, collapsed) ==
  [parent |-> parent, rowHeight |-> rowHeight, collapsed |-> collapsed,
   dates |-> [i \in 1..Len(parent) |-> NoDates],
   periods |-> [i \in 1..Len(parent) |-> FUndef]]

\* A -> [B], C with rows of 2, 3 and 2 pixels; A's data says collapsed.
TreeA == PlainTree(<<0, 1, 0>>,
                   <<FUndef, FNum(2), FStr("abc")>>,
                   <<"true", "undefined", "undefined">>)
\* Two roots, rows of 4 and 2 pixels.
TreeB == PlainTree(<<0, 0>>, <<FNum(3), FUndef>>, <<"undefined", "undefined">>)
\* A tree without nodes.
TreeEmpty == PlainTree(<<>>, <<>>, <<>>)

ViewTrees == {TreeA, TreeB, TreeEmpty}

SignalSets == SUBSET {"META_CHANGED", "DATA_CHANGED"}
\* What the callers of Spec pass: an index below, inside and past the rows, and
\* NaN; an offset of no and of one pixel; no, some and all the height.
CoarseIndexArgs == {-1, 0, 1, MaxIndex, NaN}
CoarseOffsetArgs == {0, 1}
CoarseAvailArgs == {0, 4, MaxAvail}

Init == Constructed(FALSE)

\* Items are collapsed and expanded where that shows: on items with children.
CollapseParent(n, v) ==
  /\ data_ # Null
  /\ n \in Nodes(data_)
  /\ numChildren(data_, n) # 0
  /\ CollapseItem(n, v)

Next ==
  \/ \E t \in ViewTrees : Data(t)
  \/ \E sig \in SignalSets : TreeSignal(sig)
  \/ \E n \in 1..MaxNodes, v \in {"true", "false"} : CollapseParent(n, v)
  \/ \E v \in CoarseOffsetArgs : SetVerticalOffset(v)
  \/ \E v \in CoarseIndexArgs : SetStartIndex(v)
  \/ \E v \in CoarseIndexArgs : SetEndIndex(v)
  \/ \E v \in CoarseAvailArgs : SetAvailableHeight(v)
  \/ Recalculate
  \/ Run

Spec == Init /\ [][Next]_vars

-----------------------------------------------------------------------------
(* SpecTree: the passes over every tree shape of up to MaxNodes nodes.     *)

\* The shapes of n nodes, numbered in pre-order: the parent of node i + 1 is
\* node i, an ancestor of node i, or none.
RECURSIVE AncestorsOrSelf(_, _)
AncestorsOrSelf(parent, i) ==
  IF i = 0 THEN {0} ELSE {i} \cup AncestorsOrSelf(parent, parent[i])

RECURSIVE Shapes(_)
Shapes(n) ==
  IF n = 0 THEN {<<>>}
  ELSE {Append(p, q) : p \in Shapes(n - 1), q \in 0..(n - 1)}

PreOrderShapes(n) ==
  {p \in Shapes(n) : \A i \in 1..n : p[i] \in AncestorsOrSelf(p, i - 1)}

\* Row-height fields: missing, not a number, zero, and two numbers.
RowHeightFields == <<FUndef, FStr("abc"), FNum(0), FNum(2), FNum(3)>>
CollapsedFields == <<"undefined", "true", "false">>

\* The tree of shape p whose node i holds the (i + k)-th row-height field and
\* the (i + c)-th collapsed field, counted cyclically.
ShapedTree(p, k, c) ==
  PlainTree(p,
            [i \in 1..Len(p) |-> RowHeightFields[((i + k) % Len(RowHeightFields)) + 1]],
            [i \in 1..Len(p) |-> CollapsedFields[((i + c) % Len(CollapsedFields)) + 1]])

GenTrees ==
  {ShapedTree(p, k, c) : p \in UNION {PreOrderShapes(n) : n \in 0..MaxNodes},
                         k \in 0..(Len(RowHeightFields) - 1),
                         c \in 0..(Len(CollapsedFields) - 1)}

\* A tree is attached once.
Attach(t) == data_ = Null /\ Data(t)

NextTree ==
  \/ \E t \in GenTrees : Attach(t)
  \/ \E sig \in SignalSets : TreeSignal(sig)
  \/ \E n \in 1..MaxNodes, v \in {"true", "false"} : CollapseParent(n, v)
  \/ \E v \in {"true", "false"} : CollapseAll(v)
  \/ Run

SpecTree == Init /\ [][NextTree]_vars

-----------------------------------------------------------------------------
(* SpecPos: the position resolver over every flat tree of up to MaxRows    *)
(* rows of 2 or 3 pixels, with every viewport setting enumerated.          *)

RECURSIVE SeqsOver(_, _)
\* The sequences of length n over the set S.
SeqsOver(S, n) ==
  IF n = 0 THEN {<<>>}
  ELSE {Append(q, x) : q \in SeqsOver(S, n - 1), x \in S}

\* The tree of roots only with the given row-height fields.
FlatTree(rowHeight) ==
  PlainTree([i \in 1..Len(rowHeight) |-> 0], rowHeight,
            [i \in 1..Len(rowHeight) |-> "undefined"])

FlatTrees == {FlatTree(h) : h \in UNION {SeqsOver({FUndef, FNum(2)}, n) : n \in 0..MaxRows}}

IndexArgs == (-1..MaxIndex) \cup {NaN}
\* scrollToEnd without an index, and with the first, the second and a later one.
ScrollEndArgs == {Undefined, 0, 1, MaxIndex}
OffsetArgs == -1..MaxOffset
AvailArgs == 0..MaxAvail

NextPos ==
  \/ \E t \in FlatTrees : Attach(t)
  \/ \E v \in OffsetArgs : SetVerticalOffset(v)
  \/ \E v \in IndexArgs : SetStartIndex(v)
  \/ \E v \in IndexArgs : SetEndIndex(v)
  \/ \E v \in AvailArgs : SetAvailableHeight(v)
  \/ \E v \in ScrollEndArgs : ScrollToEnd(v)
  \/ Recalculate
  \/ Run

SpecPos == Init /\ [][NextPos]_vars

-----------------------------------------------------------------------------
(* SpecCache: the range-height query, asked of the cache of every flat     *)
(* tree of up to MaxRows rows of 2, 3 or 4 pixels.                         *)

CacheTrees ==
  {FlatTree(h) : h \in UNION {SeqsOver({FUndef, FNum(2), FNum(3)}, n) : n \in 0..MaxRows}}

QueryArgs == -2..(MaxRows + 1)

\* getHeightByIndexes_(a, b) is called and its result kept.
HeightQuery(a, b) ==
  /\ query' = [asked |-> TRUE, a |-> a, b |-> b,
               result |-> getHeightByIndexes_(heightCache_, a, b)]
  /\ UNCHANGED <<isResourceChart_, periodsMap_, data_, meta, visibleData_, heightCache_,
                 startIndex_, endIndex_, verticalOffset_, availableHeight_,
                 positionRecalculated_, minDate_, maxDate_, consistency_, passes, branch,
                 dataGrid_, timeline_, verticalScrollBar_, scrollBarRatio, gridDraw,
                 timelineDraw, gridPending, timelinePending>>

NextCache ==
  \/ \E t \in CacheTrees : Attach(t)
  \/ Run
  \/ \E a \in QueryArgs, b \in QueryArgs \cup {Undefined} : HeightQuery(a, b)

SpecCache == Init /\ [][NextCache]_vars

-----------------------------------------------------------------------------
(* SpecRes: linearization over every flat tree of up to MaxResNodes        *)
(* resources, each with one of a few period lists.                         *)

PeriodIds == {"P1", "P2"}

\* The period at position pos of node's list.
Period(id, node, pos) ==
  [id |-> id, node |-> node, pos |-> pos,
   start |-> FNum(10 * node + pos), end |-> FNum(10 * node + pos + 5)]

FArray(arr) == [type |-> "array", arr |-> arr]

\* The values of a node's periods field: none, and lists without and with a
\* repeated id.
PeriodFields(node) ==
  {FUndef, FArray(<<>>)}
    \cup {FArray(<<Period(i, node, 1)>>) : i \in PeriodIds}
    \cup {FArray(<<Period(i, node, 1), Period(j, node, 2)>>) :
            i \in {"P1"}, j \in PeriodIds}

ResTreesOf(n) ==
  {[FlatTree([i \in 1..n |-> FUndef]) EXCEPT !.periods = per] :
     per \in {q \in SeqsOver(UNION {PeriodFields(i) : i \in 1..n}, n) :
                \A i \in 1..n : q[i] \in PeriodFields(i)}}

ResTrees == UNION {ResTreesOf(n) : n \in 0..MaxResNodes}

InitRes == \E resource \in BOOLEAN : Constructed(resource)

NextRes ==
  \/ \E t \in ResTrees : Attach(t)
  \/ \E sig \in SignalSets : TreeSignal(sig)
  \/ Run

SpecRes == InitRes /\ [][NextRes]_vars

-----------------------------------------------------------------------------
(* SpecUi: the controller with its data grid, timeline and scroll bar,     *)
(* scrolled by pixel and by the scroll bar, over flat trees of MaxRows     *)
(* rows and one tree whose short row lies between two very tall ones.      *)

\* The heights of the tall rows: with the spacing the short row starts at
\* pixel 40008 of 80010.
TallRowAbove == 40007
TallRowBelow == 39999
TallTree == FlatTree(<<FNum(TallRowAbove), FUndef, FNum(TallRowBelow)>>)

UiTrees == {FlatTree(h) : h \in SeqsOver({FUndef, FNum(2)}, MaxRows)} \cup {TallTree}

PxArgs == -1..MaxPx
RowArgs == -1..MaxRows

\* The thumb positions the scroll bar reports: the ones run() gave it, the
\* top, the middle and the bottom.
ScrollEvents ==
  (IF scrollBarRatio.set /\ ~isNaN(scrollBarRatio.startRatio) /\ ~isNaN(scrollBarRatio.endRatio)
   THEN {<<scrollBarRatio.startRatio, scrollBarRatio.endRatio>>} ELSE {})
    \cup {<<0, 5000>>, <<2500, 7500>>, <<5000, RatioScale>>}

NextUi ==
  \/ data_ = Null /\ \E t \in UiTrees : Attach(t)
  \/ DataGrid
  \/ Timeline
  \/ GetScrollBar
  \/ \E v \in CoarseAvailArgs : SetAvailableHeight(v)
  \/ \E v \in RowArgs : ScrollToRow(v)
  \/ \E px \in PxArgs : ScrollTo(px)
  \/ \E e \in ScrollEvents : ScrollChange(e[1], e[2])
  \/ Recalculate
  \/ Run

SpecUi == Init /\ [][NextUi]_vars

-----------------------------------------------------------------------------
(* SpecDates: linearization of trees of up to MaxDateNodes nodes, nested   *)
(* or not, collapsed or not, whose date fields and period dates are        *)
(* numbers, NaN, strings or missing; the tree is replaced by another.      *)

\* The date fields of a node: numbers with NaN and a string; a string and NaN
\* with numbers; numbers alone, the end before the start; nothing that is a
\* number.
DateFields ==
  {[actualStart |-> FNum(5), actualEnd |-> FNum(20),
    baselineStart |-> FNaN, baselineEnd |-> FStr("x")],
   [actualStart |-> FStr("x"), actualEnd |-> FNaN,
    baselineStart |-> FNum(1), baselineEnd |-> FNum(30)],
   [actualStart |-> FNum(20), actualEnd |-> FNum(5),
    baselineStart |-> FUndef, baselineEnd |-> FUndef],
   [actualStart |-> FNaN, actualEnd |-> FUndef,
    baselineStart |-> FStr("x"), baselineEnd |-> FNaN]}

\* The period at position pos of node's list, with the given dates.
DatedPeriod(id, node, pos, start, end) ==
  [id |-> id, node |-> node, pos |-> pos, start |-> start, end |-> end]

\* The periods of a node: none; one with numbers; one without a number and one
\* with a start alone.
DatedPeriodFields(node) ==
  {FUndef,
   FArray(<<DatedPeriod("P1", node, 1, FNum(0), FNum(40))>>),
   FArray(<<DatedPeriod("P1", node, 1, FNaN, FStr("x")),
            DatedPeriod("P2", node, 2, FNum(50), FUndef)>>)}

DateTreesOf(p) ==
  {[PlainTree(p, [i \in 1..Len(p) |-> FUndef], [i \in 1..Len(p) |-> c])
      EXCEPT !.dates = d, !.periods = per] :
     c \in {"undefined", "true"},
     d \in SeqsOver(DateFields, Len(p)),
     per \in {q \in SeqsOver(UNION {DatedPeriodFields(i) : i \in 1..Len(p)}, Len(p)) :
                \A i \in 1..Len(p) : q[i] \in DatedPeriodFields(i)}}

DateTrees == UNION {DateTreesOf(p) : p \in UNION {PreOrderShapes(n) : n \in 0..MaxDateNodes}}

\* The trees that replace the attached one: no node, and one node with each of
\* the date fields and no periods.
ReplacingTrees == {t \in DateTrees : Len(t.parent) <= 1 /\ \A n \in Nodes(t) : t.periods[n] = FUndef}

\* data(tree) with another tree than the attached one.
Replace(t) == data_ # Null /\ data_ # t /\ Data(t)

NextDates ==
  \/ data_ = Null /\ \E t \in DateTrees : Attach(t)
  \/ data_ # Null /\ \E t \in ReplacingTrees : Replace(t)
  \/ TreeSignal({"DATA_CHANGED"})
  \/ Run

SpecDates == InitRes /\ [][NextDates]_vars

-----------------------------------------------------------------------------
(* The claims.                                                             *)

\* The total height of the visible rows, as recalculate computes it.
TotalHeight == getHeightByIndexes_(heightCache_, 0, Len(heightCache_) - 1)
\* The rows are there and do not fit into the available height.
Overflow == visibleData_ # <<>> /\ ~Ge(availableHeight_, TotalHeight)
\* The pixels of the rows startIndex..endIndex that lie below the viewport's top.
Span == Sub(getHeightByIndexes_(heightCache_, startIndex_, endIndex_), verticalOffset_)
\* The most recent call resolved the position.
Resolved == branch # "none"

\* C1, as stated: after run() / recalculate() on rows that do not fit, the span
\* of the rows startIndex..endIndex minus verticalOffset equals availableHeight,
\* for every anchor, offset and available height.
C1_SpanEqualsAvailable ==
  (Resolved /\ Overflow) => Span = availableHeight_

\* C1, amended: after run() / recalculate() on rows that do not fit, the span of
\* the rows startIndex..endIndex minus verticalOffset is at least availableHeight
\* when endIndex was the anchor, no anchor was set, or the anchor startIndex is
\* not negative; it equals availableHeight when the last row shown is put flush
\* with the bottom, which is when endIndex was the anchor with at least
\* availableHeight of rows up to it, and when startIndex was the anchor with
\* less than availableHeight below it.  A negative startIndex anchor with at
\* least availableHeight below it is kept and endIndex is 0.
C1_SpanCoversAvailable ==
  (Resolved /\ Overflow) =>
    /\ branch \in {"start", "startToEnd", "end", "endToStart"}
    /\ (branch = "start" /\ startIndex_ >= 0) => Ge(Span, availableHeight_)
    /\ (branch = "start" /\ startIndex_ < 0) => endIndex_ = 0
    /\ (branch = "endToStart") => Ge(Span, availableHeight_)
    /\ (branch \in {"startToEnd", "end"}) => Span = availableHeight_

\* A start-anchored viewport below the first row, with an offset, whose rows
\* cover more than the available height.
C1_Witness ==
  /\ branch = "start" /\ Overflow
  /\ startIndex_ > 0 /\ verticalOffset_ > 0 /\ availableHeight_ > 0
  /\ Gt(Span, availableHeight_)

C3_FitsShowsAll ==
  (Resolved /\ visibleData_ # <<>> /\ Ge(availableHeight_, TotalHeight)) =>
    /\ startIndex_ = 0
    /\ endIndex_ = Len(visibleData_) - 1
    /\ verticalOffset_ = 0

\* recalculate() was called again, outside run(), on two or more rows that fit.
C3_Witness ==
  /\ passes = <<"recalculate">>
  /\ Len(visibleData_) >= 2
  /\ Ge(availableHeight_, TotalHeight)
  /\ availableHeight_ > 0

\* The most recent call was a run() that made the given pass.
Passed(pass) == \E i \in 1..Len(passes) : passes[i] = pass

\* The nodes of t none of whose proper ancestors is collapsed in the metadata m.
Uncollapsed(t, m) ==
  {n \in Nodes(t) :
     \A a \in AncestorsOrSelf(t.parent, t.parent[n]) \ {0} : m[a].collapsed # "true"}

\* A -> [B -> [C]], D
ExampleShape == <<0, 1, 2, 0>>

\* C4: after a run() that rebuilds the visible rows, they are the nodes without
\* a collapsed proper ancestor, in pre-order (the trees number their nodes in
\* pre-order); in the tree A -> [B -> [C]], D they are A, B, D when only B is
\* collapsed and A, B, C, D when no node is.
C4_VisibleRows ==
  (data_ # Null /\ Passed("visible")) =>
    /\ visibleData_ = Ascending(Uncollapsed(data_, meta))
    /\ data_.parent = ExampleShape =>
         /\ (\A n \in 1..4 : (meta[n].collapsed = "true") <=> (n = 2))
              => visibleData_ = <<1, 2, 4>>
         /\ (\A n \in 1..4 : meta[n].collapsed # "true")
              => visibleData_ = <<1, 2, 3, 4>>

\* The tree A -> [B -> [C]], D after a run() with B collapsed by a call, not
\* by its data: A, B and D are the rows.
C4_Witness ==
  /\ data_ # Null /\ Passed("visible") /\ ~Passed("linearize")
  /\ data_.parent = ExampleShape
  /\ data_.collapsed[2] # "true" /\ meta[2].collapsed = "true"
  /\ visibleData_ = <<1, 2, 4>>

\* heightCache[i] - heightCache[i - 1], or heightCache[0]; i counts from 1 here.
CacheStep(i) == heightCache_[i] - (IF i = 1 THEN 0 ELSE heightCache_[i - 1])

\* The row height as the claim has it: the number of the field, or the default.
NumberOrDefault(f) == IF f.type = "number" THEN f.num ELSE DEFAULT_ROW_HEIGHT
\* The row height with zero taken as no number.
NonZeroOrDefault(f) ==
  IF f.type = "number" /\ f.num # 0 THEN f.num ELSE DEFAULT_ROW_HEIGHT

RECURSIVE RowSum(_, _)
\* The heights and spacings of the visible rows lo..hi (counted from 0), added up.
RowSum(lo, hi) ==
  IF lo > hi THEN 0
  ELSE (getItemHeight(data_, visibleData_[lo + 1]) + ROW_SPACE) + RowSum(lo + 1, hi)

ValidIndex(i) == i \in 0..(Len(heightCache_) - 1)

\* C6: for indexes a and b of the height cache, the range height of (a, b) is
\* that of (b, a), and is the sum of height plus spacing of the rows from the
\* lesser to the greater of them.
C6_RangeHeightSymmetric ==
  [][\A a, b \in QueryArgs :
       (HeightQuery(a, b) /\ ValidIndex(a) /\ ValidIndex(b)) =>
         /\ query'.result = getHeightByIndexes_(heightCache_, b, a)
         /\ query'.result = RowSum(IF a < b THEN a ELSE b, IF a < b THEN b ELSE a)]_vars

\* The range height of (a, b) with a after b, both rows of the cache, b not
\* the first.
C6_Witness ==
  /\ query.asked
  /\ ValidIndex(query.a) /\ ValidIndex(query.b)
  /\ query.a > query.b /\ query.b > 0
  /\ query.result = RowSum(query.b, query.a)

\* clamp(x) = min(max(x, 0), length - 1)
Clamp(x) ==
  LET lo == IF x < 0 THEN 0 ELSE x
  IN IF lo > Len(heightCache_) - 1 THEN Len(heightCache_) - 1 ELSE lo

\* C7: the range height of any two integers is that of the two clamped to the
\* indexes of the cache, and 0 when the cache is empty.
C7_RangeHeightClamped ==
  [][\A a, b \in QueryArgs :
       HeightQuery(a, b) =>
         IF heightCache_ = <<>>
         THEN query'.result = 0
         ELSE query'.result = getHeightByIndexes_(heightCache_, Clamp(a), Clamp(b))]_vars

\* The ids of the periods the node declares.
DeclaredIds(t, n) ==
  IF t.periods[n].type = "array"
  THEN {t.periods[n].arr[i].id : i \in 1..Len(t.periods[n].arr)}
  ELSE {}

\* The nodes that declare a period with the id.
Declarers(t, id) == {n \in Nodes(t) : id \in DeclaredIds(t, n)}

\* A resource chart has just linearized its tree.
Linearized == data_ # Null /\ isResourceChart_ /\ Passed("linearize")

\* C8: in a resource chart, after a linearization, an id that two or more
\* nodes declare is in the periods map with the period of the last of them in
\* traversal order, whatever the other nodes are.
C8_LastNodeWins ==
  Linearized =>
    \A id \in PeriodIds :
      LET ns == Declarers(data_, id)
      IN Cardinality(ns) >= 2 =>
           \E q \in periodsMap_ :
             q.id = id /\ q.node = CHOOSE n \in ns : \A o \in ns : o <= n

\* C9: in a resource chart, after a linearization of a tree whose period ids
\* are all distinct, every period of every node is in the periods map under
\* its id.
C9_AllPeriodsMapped ==
  (Linearized /\ \A id \in PeriodIds :
                   /\ Cardinality(Declarers(data_, id)) <= 1
                   /\ \A n \in Nodes(data_) :
                        data_.periods[n].type = "array" =>
                          Cardinality({i \in 1..Len(data_.periods[n].arr) :
                                         data_.periods[n].arr[i].id = id}) <= 1)
    => \A n \in Nodes(data_) :
         data_.periods[n].type = "array" =>
           \A i \in 1..Len(data_.periods[n].arr) :
             data_.periods[n].arr[i] \in periodsMap_

\* The passes run() makes from the dirty bits c, in order.
ExpectedPasses(c) ==
  IF "DATA" \in c THEN <<"linearize", "visible", "recalculate">>
  ELSE IF "VISIBILITY" \in c THEN <<"visible", "recalculate">>
  ELSE IF c # {} THEN <<"recalculate">>
  ELSE <<>>

\* C10: from any dirty bits, run() relinearizes only if DATA is dirty, then
\* rebuilds the visible rows if DATA or VISIBILITY is dirty, then resolves the
\* position if anything was dirty, and leaves no bit dirty.
C10_RunCascade ==
  [][Run => (passes' = ExpectedPasses(consistency_) /\ consistency_' = {})]_vars

\* A run() that made all three passes over a tree with rows.
C10_Witness ==
  /\ passes = <<"linearize", "visible", "recalculate">>
  /\ consistency_ = {}
  /\ visibleData_ # <<>>

C12_NotificationMapping ==
  [][/\ TreeSignal({"META_CHANGED"}) => consistency_' = consistency_ \cup {"VISIBILITY"}
     /\ TreeSignal({"DATA_CHANGED"}) => consistency_' = consistency_ \cup {"DATA"}
     /\ TreeSignal({"META_CHANGED", "DATA_CHANGED"}) =>
          consistency_' = consistency_ \cup {"DATA", "VISIBILITY"}
     /\ \A t \in ViewTrees :
          (Data(t) /\ t # data_) => consistency_' = consistency_ \cup {"DATA"}
     /\ (Run /\ "DATA" \notin consistency_) =>
          \A i \in 1..Len(passes') : passes'[i] # "linearize"]_vars

\* A run() that followed a metadata change alone, over rows: it rebuilt the
\* visible rows without linearizing.
C12_Witness ==
  /\ passes = <<"visible", "recalculate">>
  /\ visibleData_ # <<>>
  /\ consistency_ = {}

\* The index of the last row.
LastIndex == Len(heightCache_) - 1

\* Row k can be put flush with the bottom: it is a row, and the rows up to it
\* are at least availableHeight high.
EndAnchorable(k) ==
  ValidIndex(k) /\ Ge(getHeightByIndexes_(heightCache_, 0, k), availableHeight_)

\* run() on the settings st leaves endIndex k and row k flush with the bottom.
EndAnchoredAt(st, k) ==
  LET r == run(st)
  IN /\ r.endIndex = k
     /\ Sub(getHeightByIndexes_(r.heightCache, r.startIndex, k), r.verticalOffset)
          = availableHeight_

\* endIndex(k).run() leaves the vertical offset it would leave after any other
\* vertical offset.
OffsetForgotten(k) ==
  \A v \in OffsetArgs :
    run(endIndex([Settings EXCEPT !.verticalOffset = v], k)).verticalOffset
      = run(endIndex(Settings, k)).verticalOffset

\* C13, as stated: in every state whose rows do not fit, endIndex(k) or
\* scrollToEnd(k) followed by run(), for a row k with at least availableHeight
\* of rows up to it, leaves endIndex k, row k flush with the bottom, and a
\* vertical offset that does not depend on the one set before.
C13_EndAnchored ==
  \A k \in 0..MaxIndex :
    (Overflow /\ EndAnchorable(k)) =>
      /\ EndAnchoredAt(endIndex(Settings, k), k)
      /\ EndAnchoredAt(scrollToEnd(Settings, k), k)
      /\ OffsetForgotten(k)

\* C13, amended: the same for endIndex(k) with k other than the current
\* endIndex, and for scrollToEnd(k) with k other than 0 and other than the
\* current endIndex; scrollToEnd(0) is scrollToEnd() and anchors the last row;
\* endIndex(k) with the current endIndex changes nothing, and the run() after
\* it on a consistent controller leaves the viewport as it was.
C13_EndAnchoredOnChange ==
  /\ \A k \in 0..MaxIndex :
       /\ (Overflow /\ EndAnchorable(k) /\ Ne(endIndex_, k)) =>
            /\ EndAnchoredAt(endIndex(Settings, k), k)
            /\ k # 0 => EndAnchoredAt(scrollToEnd(Settings, k), k)
            /\ OffsetForgotten(k)
       /\ (Eq(endIndex_, k) /\ isConsistent(consistency_)) =>
            LET r == run(endIndex(Settings, k))
            IN /\ r.startIndex = startIndex_ /\ r.endIndex = endIndex_
               /\ r.verticalOffset = verticalOffset_ /\ r.passes = <<>>
  /\ (Overflow /\ Ne(endIndex_, LastIndex)) =>
       /\ scrollToEnd(Settings, 0) = scrollToEnd(Settings, Undefined)
       /\ EndAnchoredAt(scrollToEnd(Settings, 0), LastIndex)

\* An end-anchored viewport: a row before the last is flush with the bottom,
\* the rows start below the first one and the top row is cut.
C13_Witness ==
  /\ branch = "end" /\ Overflow
  /\ endIndex_ > 0 /\ endIndex_ < LastIndex
  /\ startIndex_ > 0 /\ verticalOffset_ > 0
  /\ Span = availableHeight_

\* C19: when the rows do not fit and startIndex is set, and the rows from
\* startIndex to the last, less verticalOffset, are less than availableHeight,
\* recalculate() leaves endIndex at the last row and that row flush with the
\* bottom: the rows from startIndex to the last, less verticalOffset, are
\* availableHeight.
C19_StartFlipsToEnd ==
  (/\ Overflow /\ ~isNaN(startIndex_)
   /\ Lt(Sub(getHeightByIndexes_(heightCache_, startIndex_, LastIndex), verticalOffset_),
         availableHeight_))
    => LET p == recalculate(visibleData_, heightCache_, startIndex_, endIndex_,
                            verticalOffset_, availableHeight_)
       IN /\ p.endIndex = LastIndex
          /\ Sub(getHeightByIndexes_(heightCache_, p.startIndex, LastIndex),
                 p.verticalOffset) = availableHeight_

\* A viewport resolved from the end of the list after a start anchor that was
\* too close to it: the last row is flush and the top row is cut.
C19_Witness ==
  /\ branch = "startToEnd" /\ Overflow
  /\ endIndex_ = LastIndex /\ startIndex_ > 0 /\ verticalOffset_ > 0
  /\ Span = availableHeight_

\* The positions of the node's period list that carry the id.
PositionsOf(t, n, id) ==
  IF t.periods[n].type = "array"
  THEN {i \in 1..Len(t.periods[n].arr) : t.periods[n].arr[i].id = id}
  ELSE {}

\* C18: in a resource chart, after a linearization, an id that one node alone
\* declares, twice or more in its period list, is in the periods map with the
\* period that comes last in that list.
C18_LastPeriodWins ==
  Linearized =>
    \A id \in PeriodIds : \A n \in Nodes(data_) :
      (Declarers(data_, id) = {n} /\ Cardinality(PositionsOf(data_, n, id)) >= 2) =>
        \E q \in periodsMap_ :
          /\ q.id = id /\ q.node = n
          /\ q.pos = CHOOSE i \in PositionsOf(data_, n, id) :
                       \A o \in PositionsOf(data_, n, id) : o <= i

\* The numbers among the date fields of every node of t and, in a resource
\* chart, among the start and end of every period of every node.
NumericDates(t, resource) ==
  LET fields == UNION {{t.dates[n].actualStart, t.dates[n].actualEnd,
                        t.dates[n].baselineStart, t.dates[n].baselineEnd} :
                       n \in Nodes(t)}
      ofPeriods == UNION {UNION {{t.periods[n].arr[i].start, t.periods[n].arr[i].end} :
                                 i \in 1..Len(t.periods[n].arr)} :
                          n \in {o \in Nodes(t) : t.periods[o].type = "array"}}
      all == IF resource THEN fields \cup ofPeriods ELSE fields
  IN {f.num : f \in {g \in all : g.type = "number"}}

\* C17: after a linearization, minDate and maxDate are the least and the
\* greatest of the numbers among the four date fields of every node, collapsed
\* or not, and, in a resource chart, the period starts and ends; both are NaN
\* when there is no such number, whatever they were before.
C17_DateRange ==
  (data_ # Null /\ Passed("linearize")) =>
    LET dates == NumericDates(data_, isResourceChart_)
    IN IF dates = {}
       THEN minDate_ = NaN /\ maxDate_ = NaN
       ELSE /\ minDate_ = CHOOSE x \in dates : \A y \in dates : x <= y
            /\ maxDate_ = CHOOSE x \in dates : \A y \in dates : y <= x

\* A linearized resource tree whose collapsed parent holds a NaN and a string
\* next to its numbers and whose child, under it, gives the greatest date by a
\* period.
C17_Witness ==
  /\ data_ # Null /\ isResourceChart_ /\ Passed("linearize")
  /\ Len(data_.parent) = 2 /\ data_.parent[2] = 1 /\ meta[1].collapsed = "true"
  /\ data_.dates[1].baselineStart = FNaN /\ data_.dates[1].baselineEnd = FStr("x")
  /\ data_.periods[2].type = "array"
  /\ minDate_ = 5 /\ maxDate_ = 50

\* The content pixel at the top of a viewport: the height of the rows before
\* startIndex, plus verticalOffset.
TopPixelOf(cache, start, offset) ==
  Add(IF start = 0 THEN 0 ELSE At(cache, Sub(start, 1)), offset)

TopPixel == TopPixelOf(heightCache_, startIndex_, verticalOffset_)

\* C14: when the rows do not fit, a step of scrollTo(px) with
\* 0 < px <= totalHeight - availableHeight leaves the top of the viewport at
\* content pixel px.
C14_ScrollToPixel ==
  [][\A px \in 1..MaxPx :
       (Overflow /\ Ge(Sub(TotalHeight, availableHeight_), px) /\ ScrollTo(px))
         => TopPixel' = px]_vars

\* C15: a step of scrollTo(px) with px <= 0 leaves startIndex, endIndex,
\* verticalOffset, the dirty bits, the visible rows and the height cache as
\* they are, makes no pass of run() and draws neither collaborator.
C15_ScrollToNothing ==
  [][\A px \in {p \in PxArgs : p <= 0} :
       ScrollTo(px) =>
         /\ UNCHANGED <<startIndex_, endIndex_, verticalOffset_, consistency_,
                        visibleData_, heightCache_, scrollBarRatio>>
         /\ passes' = <<>>
         /\ gridDraw' = NoDraw /\ timelineDraw' = NoDraw]_vars

\* A controller with its collaborators that is dirty, on rows that do not fit
\* and scrolled down, after a call that ran nothing and drew nothing.
C15_Witness ==
  /\ dataGrid_ /\ timeline_ /\ verticalScrollBar_
  /\ Overflow /\ ~isConsistent(consistency_) /\ startIndex_ = 1
  /\ passes = <<>> /\ gridDraw = NoDraw /\ timelineDraw = NoDraw

\* The ratios of a viewport's top and bottom pixel to the total height,
\* rounded to 4 decimals, as a setting of the scroll bar.
ViewportRatios(cache, start, offset) ==
  LET top == TopPixelOf(cache, start, offset)
      total == At(cache, Len(cache) - 1)
  IN [set |-> TRUE,
      startRatio |-> Ratio(top, total),
      endRatio |-> Ratio(Add(top, availableHeight_), total)]

\* The rows do not fit, the position is resolved with startIndex a row, and
\* the scroll bar holds the ratios of the viewport.
RatiosPushed ==
  /\ verticalScrollBar_ /\ isConsistent(consistency_)
  /\ Overflow /\ ValidIndex(startIndex_) /\ ~isNaN(verticalOffset_)
  /\ scrollBarRatio = ViewportRatios(heightCache_, startIndex_, verticalOffset_)

\* How far the listener, fed the scroll bar's ratios, moves the top pixel.
TopPixelMoved ==
  LET r == run(scrollChange(Settings, scrollBarRatio.startRatio, scrollBarRatio.endRatio))
      top == TopPixelOf(r.heightCache, r.startIndex, r.verticalOffset)
  IN IF top >= TopPixel THEN top - TopPixel ELSE TopPixel - top

\* run() gives the scroll bar the ratios of the viewport it leaves, when the
\* rows do not fit and startIndex is a row; a top pixel of 20 and an available
\* height of 30 in 100 give 0.20 and 0.50.
RunPushesRatios ==
  /\ Ratio(20, 100) = 2000 /\ Ratio(20 + 30, 100) = 5000
  /\ verticalScrollBar_ =>
       LET r == run(Settings)
       IN (/\ r.visibleData # <<>>
           /\ ~Ge(availableHeight_, At(r.heightCache, Len(r.heightCache) - 1))
           /\ r.startIndex \in 0..(Len(r.heightCache) - 1))
            => scrollBarRatios(r.heightCache, r.startIndex, r.verticalOffset, availableHeight_)
                 = ViewportRatios(r.heightCache, r.startIndex, r.verticalOffset)

\* C16, as stated: run() gives the scroll bar the ratios of the viewport's top
\* and bottom pixel to the total height rounded to 4 decimals, and feeding them
\* back through the listener leaves the top pixel at most the height of the
\* row at the top away from where it was.
C16_RoundTripWithinRow ==
  /\ RunPushesRatios
  /\ RatiosPushed =>
       TopPixelMoved <= getHeightByIndexes_(heightCache_, startIndex_, startIndex_)

\* C16, amended: the same, the top pixel being at most totalHeight / 20000 + 1/2
\* pixels away from where it was.
C16_RoundTripWithinRatio ==
  /\ RunPushesRatios
  /\ RatiosPushed => 2 * RatioScale * TopPixelMoved <= TotalHeight + RatioScale

\* The short row between the tall ones was at the top, and the ratios fed
\* back have put the top 3 pixels higher, into the row above.
C16_Witness ==
  /\ verticalScrollBar_ /\ data_ = TallTree /\ isConsistent(consistency_)
  /\ startIndex_ = 0 /\ verticalOffset_ = (TallRowAbove + ROW_SPACE) - 3
  /\ RatiosPushed

\* What run() hands to a collaborator when nothing is dirty and no
\* recalculation is pending: the viewport as it is, and a false flag.
DrawnUnchanged ==
  [drawn |-> TRUE, visibleData |-> visibleData_, startIndex |-> startIndex_,
   endIndex |-> endIndex_, verticalOffset |-> verticalOffset_,
   availableHeight |-> availableHeight_, positionRecalculated |-> FALSE]

\* C20: the flag a run() hands to the data grid, and to the timeline, is true
\* exactly when recalculate() has executed since the run() that last drew that
\* collaborator, this run()'s own recalculation included; the controller's flag
\* is false after every run(); and run() on a consistent controller with a
\* false flag draws both collaborators with the viewport as it is and a false
\* flag, without a pass.
C20_FlagConsumedOnce ==
  [][/\ gridDraw'.drawn =>
          gridDraw'.positionRecalculated = (gridPending \/ Passed("recalculate")')
     /\ timelineDraw'.drawn =>
          timelineDraw'.positionRecalculated = (timelinePending \/ Passed("recalculate")')
     /\ (gridDraw'.drawn \/ timelineDraw'.drawn) => ~positionRecalculated_'
     /\ ~(positionRecalculated_' /\ Run)
     /\ (dataGrid_ /\ timeline_ /\ isConsistent(consistency_) /\ ~positionRecalculated_ /\ Run)
          => /\ gridDraw' = DrawnUnchanged /\ timelineDraw' = DrawnUnchanged
             /\ passes' = <<>>]_vars

\* A run() on a consistent controller has drawn both collaborators, rows
\* that do not fit, with a false flag.
C20_Witness ==
  /\ dataGrid_ /\ timeline_ /\ Overflow /\ passes = <<>>
  /\ gridDraw.drawn /\ ~gridDraw.positionRecalculated
  /\ timelineDraw.drawn /\ ~timelineDraw.positionRecalculated
  /\ ~positionRecalculated_

\* The pixels of the rows startIndex..e that lie below the viewport's top.
CoveredTo(e) == Sub(getHeightByIndexes_(heightCache_, startIndex_, e), verticalOffset_)

\* C21, as stated: after run() / recalculate() on rows that do not fit, the
\* rows startIndex..endIndex minus verticalOffset cover availableHeight, and
\* endIndex is the first index from startIndex on with that property: the rows
\* startIndex..e minus verticalOffset cover less for every e before endIndex.
C21_SmallestCover ==
  (Resolved /\ Overflow) =>
    /\ Ge(Span, availableHeight_)
    /\ \A e \in 0..MaxIndex :
         (Ge(e, startIndex_) /\ Lt(e, endIndex_)) => Lt(CoveredTo(e), availableHeight_)

\* C21, on rows: the same, when the resolution has left startIndex and
\* endIndex on rows of the list.
C21_SmallestCoverOfRows ==
  (ValidIndex(startIndex_) /\ ValidIndex(endIndex_)) => C21_SmallestCover

\* C22: after run() / recalculate() on a list that is not empty, startIndex and
\* endIndex are rows of the list, startIndex not after endIndex.
C22_IndexesInRange ==
  (Resolved /\ visibleData_ # <<>>) =>
    /\ ValidIndex(startIndex_) /\ ValidIndex(endIndex_)
    /\ startIndex_ <= endIndex_

\* The height, spacing included, of the row at index i of the cache.
RowHeightIn(cache, i) == getHeightByIndexes_(cache, i, i)

\* What the scroll bar's listener leaves when it is fed the ratios e.
AfterScrollChange(e) == run(scrollChange(Settings, e[1], e[2]))

\* C23, as stated: after a resolution that computes verticalOffset itself, from
\* an end anchor, from a start anchor too close to the end of the list, or
\* after the scroll bar's listener, on a list that is not empty,
\* 0 <= verticalOffset < the height of the row at startIndex.
C23_OffsetInsideRow ==
  /\ (branch \in {"end", "startToEnd"} /\ visibleData_ # <<>>) =>
       /\ Ge(verticalOffset_, 0)
       /\ Lt(verticalOffset_, RowHeightIn(heightCache_, startIndex_))
  /\ verticalScrollBar_ =>
       \A e \in ScrollEvents :
         AfterScrollChange(e).visibleData # <<>> =>
           /\ Ge(AfterScrollChange(e).verticalOffset, 0)
           /\ Lt(AfterScrollChange(e).verticalOffset,
                 RowHeightIn(AfterScrollChange(e).heightCache, AfterScrollChange(e).startIndex))

\* C23, on rows: the same with the offset at most the height of the row at
\* startIndex, when the anchor the resolution started from was a row.
C23_OffsetWithinRow ==
  /\ (branch \in {"end", "startToEnd"} /\ visibleData_ # <<>> /\ ValidIndex(endIndex_)) =>
       /\ Ge(verticalOffset_, 0)
       /\ Ge(RowHeightIn(heightCache_, startIndex_), verticalOffset_)
  /\ (verticalScrollBar_ /\ isConsistent(consistency_)) =>
       \A e \in ScrollEvents :
         (/\ AfterScrollChange(e).visibleData # <<>>
          /\ AfterScrollChange(e).endIndex \in 0..(Len(AfterScrollChange(e).heightCache) - 1)) =>
           /\ Ge(AfterScrollChange(e).verticalOffset, 0)
           /\ Ge(RowHeightIn(AfterScrollChange(e).heightCache, AfterScrollChange(e).startIndex),
                 AfterScrollChange(e).verticalOffset)

\* What recalculate() would leave, called now.
Again ==
  recalculate(visibleData_, heightCache_, startIndex_, endIndex_, verticalOffset_,
              availableHeight_)

\* recalculate(), called now, would leave startIndex, endIndex and
\* verticalOffset as they are.
Settled ==
  /\ Again.startIndex = startIndex_
  /\ Again.endIndex = endIndex_
  /\ Again.verticalOffset = verticalOffset_

\* C24, as stated: after run() / recalculate() has resolved the position,
\* recalculate() called again leaves startIndex, endIndex and verticalOffset
\* as they are.
C24_RecalculateIdempotent == Resolved => Settled

\* C24, on rows: the same, when the resolution has left endIndex on a row of
\* the list or the list is empty.
C24_RecalculateIdempotentOnRows ==
  (Resolved /\ (ValidIndex(endIndex_) \/ visibleData_ = <<>>)) => Settled

\* The step is a run() that linearizes the tree.
Relinearizes == \E i \in 1..Len(passes') : passes'[i] = "linearize"

\* C25, as stated: a run() with DATA dirty leaves every node's collapsed
\* metadata as it was, and so the rows that collapseAll(), expandAll() or the
\* collapsing of one item made visible are the visible rows after it.
C25_CollapsedKept ==
  [][Relinearizes =>
       /\ \A n \in Nodes(data_) : meta'[n].collapsed = meta[n].collapsed
       /\ visibleData_' = getVisibleData_(data_, meta).visibleData]_vars

\* C25, on the items linearizeData_ does not copy the field of: a run() with
\* DATA dirty leaves the collapsed metadata of every item that has no children
\* or no collapsed field in its data as it was.
C25_CollapsedKeptWithoutField ==
  [][Relinearizes =>
       \A n \in Nodes(data_) :
         (numChildren(data_, n) = 0 \/ data_.collapsed[n] = "undefined")
           => meta'[n].collapsed = meta[n].collapsed]_vars

====
